---- MODULE Spec2Model ----
(***************************************************************************)
(* Unordered JSON array matchers of googletest-json-serde.                 *)
(*                                                                         *)
(* Three matcher types are modelled, each with its matches and             *)
(* explain_match methods:                                                  *)
(*   JsonUnorderedElementsAre  (PerfectMatch / Superset / Subset)          *)
(*   JsonContainsEachMatcher                                               *)
(*   JsonIsContainedInMatcher                                              *)
(*                                                                         *)
(* A JSON element is a value of Values; an element matcher is an opaque    *)
(* pure predicate over elements and is represented by the set of elements  *)
(* it accepts.  Indices are 0-based as in the source; At(s, i) reads the   *)
(* i-th entry of a vector.  Every invocation of an element matcher is      *)
(* appended to a log as <<matcher index, element index>>.                  *)
(***************************************************************************)
EXTENDS Integers, Sequences, FiniteSets, TLC

\* Longest array and longest matcher list explored.
MaxLen == 3

\* The JSON elements explored.
Values == {1, 2}

\* The element matchers explored: every predicate over Values.
Matchers == SUBSET Values

RECURSIVE SeqsUpTo(_, _)
SeqsUpTo(S, k) ==
  IF k = 0 THEN {<<>>}
  ELSE LET shorter == SeqsUpTo(S, k - 1)
       IN  shorter \cup {Append(s, x) : s \in {t \in shorter : Len(t) = k - 1}, x \in S}

MatcherLists == SeqsUpTo(Matchers, MaxLen)

\* serde_json::Value, as far as the matchers distinguish it: an array of
\* elements, or something that is not an array.
JsonArray(items) == [tag |-> "Array", items |-> items]
JsonObject == [tag |-> "Object", items |-> <<>>]
JsonNull == [tag |-> "Null", items |-> <<>>]
Actuals == {JsonArray(s) : s \in SeqsUpTo(Values, MaxLen)} \cup {JsonObject}

At(s, i) == s[i + 1]
SetAt(s, i, v) == [s EXCEPT ![i + 1] = v]
AllFalse(n) == [k \in 1..n |-> FALSE]

\* expected.matches(&value).is_match() of an element matcher.
Accepts(matcher, value) == value \in matcher

VARIABLES
  self,         \* the matcher object: struct, elements, requirements
  actual,       \* argument of the last call
  op,           \* the call whose result is held: "matches", "explain_match" or "none"
  result,       \* MatcherResult returned by the last matches call
  description,  \* text returned by the last explain_match call
  invoked,      \* element-matcher invocations made by the last call, in order
  search        \* the matches calls in progress, one per caller, step by step

vars == <<self, actual, op, result, description, invoked, search>>

(***************************************************************************)
(* JsonUnorderedElementsAre::matches                                       *)
(***************************************************************************)
Outcome(ok, used, log) == [ok |-> ok, used |-> used, log |-> log]

RECURSIVE backtrack(_, _, _, _, _)
RECURSIVE backtrack_loop(_, _, _, _, _, _)

\* backtrack_loop with the used flag never set: an element can be handed to
\* several matchers.
backtrack_loop_unmarked(i, j, expected, arr, used, log) ==
  IF j >= Len(arr) THEN Outcome(FALSE, used, log)
  ELSE IF At(used, j) THEN backtrack_loop(i, j + 1, expected, arr, used, log)
  ELSE LET log1 == Append(log, <<i, j>>)
       IN  IF Accepts(At(expected, i), At(arr, j))
           THEN LET r == backtrack(i + 1, expected, arr, used, log1)
                IN  IF r.ok THEN r
                    ELSE backtrack_loop(i, j + 1, expected, arr, r.used, r.log)
           ELSE backtrack_loop(i, j + 1, expected, arr, used, log1)

\* backtrack_loop that tries the candidates from the last to the first.
backtrack_loop_descending(i, j, expected, arr, used, log) ==
  IF j >= Len(arr) THEN Outcome(FALSE, used, log)
  ELSE LET c == Len(arr) - 1 - j
       IN  IF At(used, c) THEN backtrack_loop(i, j + 1, expected, arr, used, log)
           ELSE LET log1 == Append(log, <<i, c>>)
                IN  IF Accepts(At(expected, i), At(arr, c))
                    THEN LET r == backtrack(i + 1, expected, arr, SetAt(used, c, TRUE), log1)
                         IN  IF r.ok THEN r
                             ELSE backtrack_loop(i, j + 1, expected, arr,
                                                 SetAt(r.used, c, FALSE), r.log)
                    ELSE backtrack_loop(i, j + 1, expected, arr, used, log1)

\* The for loop of backtrack (PerfectMatch), from candidate j on.
backtrack_loop(i, j, expected, arr, used, log) ==
  IF j >= Len(arr) THEN Outcome(FALSE, used, log)
  ELSE IF At(used, j) THEN backtrack_loop(i, j + 1, expected, arr, used, log)
  ELSE LET log1 == Append(log, <<i, j>>)
       IN  IF Accepts(At(expected, i), At(arr, j))
           THEN LET r == backtrack(i + 1, expected, arr, SetAt(used, j, TRUE), log1)
                IN  IF r.ok THEN r
                    ELSE backtrack_loop(i, j + 1, expected, arr,
                                        SetAt(r.used, j, FALSE), r.log)
           ELSE backtrack_loop(i, j + 1, expected, arr, used, log1)

\* backtrack that commits to the first accepted candidate of each matcher: the
\* used flags of the deeper calls are kept, but a failed deeper call ends the
\* search instead of trying the next candidate.
backtrack_first_candidate_only(i, expected, arr, used, log) ==
  IF i = Len(expected) THEN Outcome(TRUE, used, log)
  ELSE LET free == {j \in 0..(Len(arr) - 1) :
                      ~At(used, j) /\ Accepts(At(expected, i), At(arr, j))}
       IN  IF free = {} THEN Outcome(FALSE, used, log)
           ELSE LET j == CHOOSE c \in free : \A d \in free : c <= d
                IN  backtrack(i + 1, expected, arr, SetAt(used, j, TRUE),
                              Append(log, <<i, j>>))

backtrack(i, expected, arr, used, log) ==
  IF i = Len(expected) THEN Outcome(TRUE, used, log)
  ELSE backtrack_loop(i, 0, expected, arr, used, log)

RECURSIVE backtrack_superset(_, _, _, _, _)
RECURSIVE backtrack_superset_loop(_, _, _, _, _, _)

\* The for loop of backtrack (Superset), from candidate j on.
backtrack_superset_loop(i, j, expected, arr, used, log) ==
  IF j >= Len(arr) THEN Outcome(FALSE, used, log)
  ELSE IF At(used, j) THEN backtrack_superset_loop(i, j + 1, expected, arr, used, log)
  ELSE LET log1 == Append(log, <<i, j>>)
       IN  IF Accepts(At(expected, i), At(arr, j))
           THEN LET r == backtrack_superset(i + 1, expected, arr,
                                            SetAt(used, j, TRUE), log1)
                IN  IF r.ok THEN r
                    ELSE backtrack_superset_loop(i, j + 1, expected, arr,
                                                 SetAt(r.used, j, FALSE), r.log)
           ELSE backtrack_superset_loop(i, j + 1, expected, arr, used, log1)

backtrack_superset(i, expected, arr, used, log) ==
  IF i = Len(expected) THEN Outcome(TRUE, used, log)
  ELSE backtrack_superset_loop(i, 0, expected, arr, used, log)

RECURSIVE backtrack_subset(_, _, _, _, _)
RECURSIVE backtrack_subset_loop(_, _, _, _, _, _)

\* backtrack_subset_loop that never skips a used matcher: one matcher can take
\* several elements.
backtrack_subset_loop_reusing(i, j, arr, matchers, used, log) ==
  IF j >= Len(matchers) THEN Outcome(FALSE, used, log)
  ELSE LET log1 == Append(log, <<j, i>>)
       IN  IF Accepts(At(matchers, j), At(arr, i))
           THEN LET r == backtrack_subset(i + 1, arr, matchers,
                                          SetAt(used, j, TRUE), log1)
                IN  IF r.ok THEN r
                    ELSE backtrack_subset_loop(i, j + 1, arr, matchers,
                                               SetAt(r.used, j, FALSE), r.log)
           ELSE backtrack_subset_loop(i, j + 1, arr, matchers, used, log1)

\* The for loop of backtrack_subset, from candidate matcher j on; i is the
\* index of the array element being placed.
backtrack_subset_loop(i, j, arr, matchers, used, log) ==
  IF j >= Len(matchers) THEN Outcome(FALSE, used, log)
  ELSE IF At(used, j) THEN backtrack_subset_loop(i, j + 1, arr, matchers, used, log)
  ELSE LET log1 == Append(log, <<j, i>>)
       IN  IF Accepts(At(matchers, j), At(arr, i))
           THEN LET r == backtrack_subset(i + 1, arr, matchers,
                                          SetAt(used, j, TRUE), log1)
                IN  IF r.ok THEN r
                    ELSE backtrack_subset_loop(i, j + 1, arr, matchers,
                                               SetAt(r.used, j, FALSE), r.log)
           ELSE backtrack_subset_loop(i, j + 1, arr, matchers, used, log1)

backtrack_subset(i, arr, matchers, used, log) ==
  IF i = Len(arr) THEN Outcome(TRUE, used, log)
  ELSE backtrack_subset_loop(i, 0, arr, matchers, used, log)

Verdict(res, log) == [result |-> res, log |-> log]
FromBool(r) == Verdict(IF r.ok THEN "Match" ELSE "NoMatch", r.log)

\* matches_PerfectMatch that compares the sizes only after the search.
matches_PerfectMatch_late_size_check(elements, arr) ==
  LET r == backtrack(0, elements, arr, AllFalse(Len(arr)), <<>>)
  IN  IF Len(arr) # Len(elements) THEN Verdict("NoMatch", r.log) ELSE FromBool(r)

matches_PerfectMatch(elements, arr) ==
  IF Len(arr) # Len(elements) THEN Verdict("NoMatch", <<>>)
  ELSE FromBool(backtrack(0, elements, arr, AllFalse(Len(arr)), <<>>))

\* matches_Superset that wants at least one matcher.
matches_Superset_nonempty(elements, arr) ==
  IF Len(arr) < Len(elements) \/ Len(elements) = 0 THEN Verdict("NoMatch", <<>>)
  ELSE FromBool(backtrack_superset(0, elements, arr, AllFalse(Len(arr)), <<>>))

\* matches_Superset with the size test of PerfectMatch.
matches_Superset_equal_size(elements, arr) ==
  IF Len(arr) # Len(elements) THEN Verdict("NoMatch", <<>>)
  ELSE FromBool(backtrack_superset(0, elements, arr, AllFalse(Len(arr)), <<>>))

matches_Superset(elements, arr) ==
  IF Len(arr) < Len(elements) THEN Verdict("NoMatch", <<>>)
  ELSE FromBool(backtrack_superset(0, elements, arr, AllFalse(Len(arr)), <<>>))

\* matches_Subset that lets a matcher take several elements.
matches_Subset_by_candidates(elements, arr) ==
  IF Len(elements) < Len(arr) THEN Verdict("NoMatch", <<>>)
  ELSE Verdict(IF \A j \in DOMAIN arr : \E i \in DOMAIN elements : Accepts(elements[i], arr[j])
               THEN "Match" ELSE "NoMatch", <<>>)

\* matches_Subset with the size test of PerfectMatch.
matches_Subset_equal_size(elements, arr) ==
  IF Len(elements) # Len(arr) THEN Verdict("NoMatch", <<>>)
  ELSE FromBool(backtrack_subset(0, arr, elements, AllFalse(Len(elements)), <<>>))

matches_Subset(elements, arr) ==
  IF Len(elements) < Len(arr) THEN Verdict("NoMatch", <<>>)
  ELSE FromBool(backtrack_subset(0, arr, elements, AllFalse(Len(elements)), <<>>))

\* JsonUnorderedElementsAre::matches without the test for Value::Array: a value
\* that is no array is searched as if it had no elements.
JsonUnorderedElementsAre_matches_any_value(elements, requirements, value) ==
  CASE requirements = "PerfectMatch" -> matches_PerfectMatch(elements, value.items)
    [] requirements = "Superset" -> matches_Superset(elements, value.items)
    [] requirements = "Subset" -> matches_Subset(elements, value.items)

JsonUnorderedElementsAre_matches(elements, requirements, value) ==
  IF value.tag # "Array" THEN Verdict("NoMatch", <<>>)
  ELSE CASE requirements = "PerfectMatch" -> matches_PerfectMatch(elements, value.items)
         [] requirements = "Superset" -> matches_Superset(elements, value.items)
         [] requirements = "Subset" -> matches_Subset(elements, value.items)

(***************************************************************************)
(* JsonContainsEachMatcher::matches                                        *)
(***************************************************************************)
RECURSIVE find_matching_assignment(_, _, _, _, _)
RECURSIVE find_matching_assignment_loop(_, _, _, _, _, _)

\* find_matching_assignment_loop that leaves the used flag set when the deeper
\* call fails.
find_matching_assignment_loop_no_undo(current_expected_index, actual_element_index, expected_matchers, actual_array, used_actual_elements, log) ==
  IF actual_element_index >= Len(actual_array)
  THEN Outcome(FALSE, used_actual_elements, log)
  ELSE IF At(used_actual_elements, actual_element_index)
  THEN find_matching_assignment_loop(current_expected_index, actual_element_index + 1,
                                     expected_matchers, actual_array,
                                     used_actual_elements, log)
  ELSE LET log1 == Append(log, <<current_expected_index, actual_element_index>>)
       IN  IF Accepts(At(expected_matchers, current_expected_index),
                      At(actual_array, actual_element_index))
           THEN LET r == find_matching_assignment(
                           current_expected_index + 1, expected_matchers, actual_array,
                           SetAt(used_actual_elements, actual_element_index, TRUE), log1)
                IN  IF r.ok THEN r
                    ELSE find_matching_assignment_loop(
                           current_expected_index, actual_element_index + 1,
                           expected_matchers, actual_array, r.used, r.log)
           ELSE find_matching_assignment_loop(
                  current_expected_index, actual_element_index + 1,
                  expected_matchers, actual_array, used_actual_elements, log1)

\* The for loop of find_matching_assignment, from actual_element_index on.
find_matching_assignment_loop(current_expected_index, actual_element_index, expected_matchers, actual_array, used_actual_elements, log) ==
  IF actual_element_index >= Len(actual_array)
  THEN Outcome(FALSE, used_actual_elements, log)
  ELSE IF At(used_actual_elements, actual_element_index)
  THEN find_matching_assignment_loop(current_expected_index, actual_element_index + 1,
                                     expected_matchers, actual_array,
                                     used_actual_elements, log)
  ELSE LET log1 == Append(log, <<current_expected_index, actual_element_index>>)
       IN  IF Accepts(At(expected_matchers, current_expected_index),
                      At(actual_array, actual_element_index))
           THEN LET r == find_matching_assignment(
                           current_expected_index + 1, expected_matchers, actual_array,
                           SetAt(used_actual_elements, actual_element_index, TRUE), log1)
                IN  IF r.ok THEN r
                    ELSE find_matching_assignment_loop(
                           current_expected_index, actual_element_index + 1,
                           expected_matchers, actual_array,
                           SetAt(r.used, actual_element_index, FALSE), r.log)
           ELSE find_matching_assignment_loop(
                  current_expected_index, actual_element_index + 1,
                  expected_matchers, actual_array, used_actual_elements, log1)

find_matching_assignment(current_expected_index, expected_matchers, actual_array, used_actual_elements, log) ==
  IF current_expected_index = Len(expected_matchers)
  THEN Outcome(TRUE, used_actual_elements, log)
  ELSE find_matching_assignment_loop(current_expected_index, 0, expected_matchers,
                                     actual_array, used_actual_elements, log)

\* JsonContainsEachMatcher::matches with an off-by-one size test.
JsonContainsEachMatcher_matches_strict_size(elements, value) ==
  IF value.tag # "Array" THEN Verdict("NoMatch", <<>>)
  ELSE IF Len(value.items) <= Len(elements) THEN Verdict("NoMatch", <<>>)
  ELSE FromBool(find_matching_assignment(0, elements, value.items,
                                         AllFalse(Len(value.items)), <<>>))

JsonContainsEachMatcher_matches(elements, value) ==
  IF value.tag # "Array" THEN Verdict("NoMatch", <<>>)
  ELSE IF Len(value.items) < Len(elements) THEN Verdict("NoMatch", <<>>)
  ELSE FromBool(find_matching_assignment(0, elements, value.items,
                                         AllFalse(Len(value.items)), <<>>))

(***************************************************************************)
(* JsonIsContainedInMatcher::matches                                       *)
(***************************************************************************)
\* Result of the inner loop over the matchers for one array element.
Pick(matched, used, log) == [matched |-> matched, used |-> used, log |-> log]

RECURSIVE first_unused_matcher(_, _, _, _, _, _)
\* The inner loop of JsonIsContainedInMatcher::matches for the element at
\* index ai, from matcher i on: the first unused matcher that accepts the
\* element is marked used.
first_unused_matcher(ai, i, elements, arr, used, log) ==
  IF i >= Len(elements) THEN Pick(FALSE, used, log)
  ELSE IF At(used, i) THEN first_unused_matcher(ai, i + 1, elements, arr, used, log)
  ELSE IF Accepts(At(elements, i), At(arr, ai))
       THEN Pick(TRUE, SetAt(used, i, TRUE), Append(log, <<i, ai>>))
       ELSE first_unused_matcher(ai, i + 1, elements, arr, used, Append(log, <<i, ai>>))

RECURSIVE is_contained_in_loop(_, _, _, _, _)
\* The outer loop of JsonIsContainedInMatcher::matches, from element ai on.
is_contained_in_loop(ai, elements, arr, used, log) ==
  IF ai >= Len(arr) THEN Verdict("Match", log)
  ELSE LET p == first_unused_matcher(ai, 0, elements, arr, used, log)
       IN  IF ~p.matched THEN Verdict("NoMatch", p.log)
           ELSE is_contained_in_loop(ai + 1, elements, arr, p.used, p.log)

JsonIsContainedInMatcher_matches(elements, value) ==
  IF value.tag # "Array" THEN Verdict("NoMatch", <<>>)
  ELSE is_contained_in_loop(0, elements, value.items, AllFalse(Len(elements)), <<>>)

(***************************************************************************)
(* Text                                                                    *)
(***************************************************************************)
\* m.describe(MatcherResult::Match) of an element matcher.
Describe(matcher) == "accepts " \o ToString(matcher)

\* {:?} of an array element.
Debug(v) == "Number(" \o ToString(v) \o ")"

Explanation(text, log) == [text |-> text, log |-> log]
Scan(any, log) == [any |-> any, log |-> log]

(***************************************************************************)
(* JsonUnorderedElementsAre::explain_match                                 *)
(***************************************************************************)
RECURSIVE any_element_matches(_, _, _, _, _)
\* for v in arr { if exp.matches(v).is_match() { any = true; break; } }
\* for the matcher at index i, from element j on.
any_element_matches(i, j, elements, arr, log) ==
  IF j >= Len(arr) THEN Scan(FALSE, log)
  ELSE IF Accepts(At(elements, i), At(arr, j)) THEN Scan(TRUE, Append(log, <<i, j>>))
  ELSE any_element_matches(i, j + 1, elements, arr, Append(log, <<i, j>>))

RECURSIVE explain_expected_loop(_, _, _, _)
\* explain_expected_loop that has nothing to say when every matcher has a
\* candidate.
explain_expected_loop_silent(i, elements, arr, log) ==
  IF i >= Len(elements) THEN Explanation("", log)
  ELSE LET sc == any_element_matches(i, 0, elements, arr, log)
       IN  IF ~sc.any
           THEN Explanation("where no element matches expected #" \o ToString(i)
                              \o ": " \o Describe(At(elements, i)), sc.log)
           ELSE explain_expected_loop(i + 1, elements, arr, sc.log)

\* The loop over self.elements of the PerfectMatch | Superset arm, from i on.
explain_expected_loop(i, elements, arr, log) ==
  IF i >= Len(elements) THEN Explanation("whose elements all match", log)
  ELSE LET sc == any_element_matches(i, 0, elements, arr, log)
       IN  IF ~sc.any
           THEN Explanation("where no element matches expected #" \o ToString(i)
                              \o ": " \o Describe(At(elements, i)), sc.log)
           ELSE explain_expected_loop(i + 1, elements, arr, sc.log)

RECURSIVE any_matcher_accepts(_, _, _, _, _)
\* for exp in &self.elements { if exp.matches(v).is_match() { any = true; break; } }
\* for the element at index i, from matcher j on.
any_matcher_accepts(i, j, elements, arr, log) ==
  IF j >= Len(elements) THEN Scan(FALSE, log)
  ELSE IF Accepts(At(elements, j), At(arr, i)) THEN Scan(TRUE, Append(log, <<j, i>>))
  ELSE any_matcher_accepts(i, j + 1, elements, arr, Append(log, <<j, i>>))

RECURSIVE explain_actual_loop(_, _, _, _)
\* explain_actual_loop that reports the sizes when the array has more elements
\* than there are matchers.
explain_actual_loop_with_sizes(i, elements, arr, log) ==
  IF i >= Len(arr)
  THEN Explanation(IF Len(elements) < Len(arr)
                   THEN "which has size " \o ToString(Len(arr)) \o " (expected at most "
                          \o ToString(Len(elements)) \o ")"
                   ELSE "whose elements all match", log)
  ELSE LET sc == any_matcher_accepts(i, 0, elements, arr, log)
       IN  IF ~sc.any
           THEN Explanation("where element #" \o ToString(i) \o " = "
                              \o Debug(At(arr, i))
                              \o " had no candidate matcher: no candidate matcher accepted it",
                            sc.log)
           ELSE explain_actual_loop(i + 1, elements, arr, sc.log)

\* The loop over arr of the Subset arm, from i on.
explain_actual_loop(i, elements, arr, log) ==
  IF i >= Len(arr) THEN Explanation("whose elements all match", log)
  ELSE LET sc == any_matcher_accepts(i, 0, elements, arr, log)
       IN  IF ~sc.any
           THEN Explanation("where element #" \o ToString(i) \o " = "
                              \o Debug(At(arr, i))
                              \o " had no candidate matcher: no candidate matcher accepted it",
                            sc.log)
           ELSE explain_actual_loop(i + 1, elements, arr, sc.log)

\* explain_match that scans the matchers in every mode.
JsonUnorderedElementsAre_explain_match_any_mode(elements, requirements, value) ==
  IF value.tag # "Array" THEN Explanation("which is not a JSON array", <<>>)
  ELSE explain_expected_loop(0, elements, value.items, <<>>)

JsonUnorderedElementsAre_explain_match(elements, requirements, value) ==
  IF value.tag # "Array" THEN Explanation("which is not a JSON array", <<>>)
  ELSE IF requirements \in {"PerfectMatch", "Superset"}
       THEN explain_expected_loop(0, elements, value.items, <<>>)
       ELSE explain_actual_loop(0, elements, value.items, <<>>)

(***************************************************************************)
(* JsonContainsEachMatcher::explain_match                                  *)
(***************************************************************************)
Best(used, lines, log) == [used |-> used, lines |-> lines, log |-> log]

RECURSIVE Join(_)
\* lines.join("\n")
Join(lines) ==
  IF lines = <<>> THEN ""
  ELSE IF Len(lines) = 1 THEN lines[1]
  ELSE lines[1] \o "\n" \o Join(Tail(lines))

\* The description is quoted with a grave accent in the source; the strings
\* here have no such character and use an apostrophe in its place.
MatchedLine(value, actual_index, matcher, expected_index) ==
  "  Actual element " \o Debug(value) \o " at index " \o ToString(actual_index)
    \o " matched expected element '" \o Describe(matcher) \o "' at index "
    \o ToString(expected_index) \o "."

UnmatchedActualLine(value, actual_index) ==
  "  Actual element " \o Debug(value) \o " at index " \o ToString(actual_index)
    \o " did not match any remaining expected element."

UnmatchedExpectedLine(matcher, expected_index) ==
  "  Expected element '" \o Describe(matcher) \o "' at index "
    \o ToString(expected_index) \o " did not match any remaining actual element."

RECURSIVE has_matching_element(_, _, _, _, _)
\* The scan of actual_array for the matcher at expected_index, from element j on.
has_matching_element(expected_index, j, elements, actual_array, log) ==
  IF j >= Len(actual_array) THEN Scan(FALSE, log)
  ELSE IF Accepts(At(elements, expected_index), At(actual_array, j))
       THEN Scan(TRUE, Append(log, <<expected_index, j>>))
       ELSE has_matching_element(expected_index, j + 1, elements, actual_array,
                                 Append(log, <<expected_index, j>>))

RECURSIVE contains_each_first_unused(_, _, _, _, _, _)
\* The inner loop of the best-match rendering: the first unused matcher, from
\* expected_element_index on, that accepts the element at actual_element_index.
contains_each_first_unused(actual_element_index, expected_element_index, elements, actual_array, used_expected_elements, log) ==
  IF expected_element_index >= Len(elements)
  THEN [matched_expected |-> -1, used |-> used_expected_elements, log |-> log]
  ELSE IF At(used_expected_elements, expected_element_index)
  THEN contains_each_first_unused(actual_element_index, expected_element_index + 1,
                                  elements, actual_array, used_expected_elements, log)
  ELSE LET log1 == Append(log, <<expected_element_index, actual_element_index>>)
       IN  IF Accepts(At(elements, expected_element_index),
                      At(actual_array, actual_element_index))
           THEN [matched_expected |-> expected_element_index,
                 used |-> SetAt(used_expected_elements, expected_element_index, TRUE),
                 log |-> log1]
           ELSE contains_each_first_unused(actual_element_index,
                                           expected_element_index + 1, elements,
                                           actual_array, used_expected_elements, log1)

RECURSIVE contains_each_best_match(_, _, _, _, _, _)
\* The loop over actual_array that pairs each element with the first unused
\* accepting matcher and pushes one line per element.
contains_each_best_match(actual_element_index, elements, actual_array, used_expected_elements, match_description_lines, log) ==
  IF actual_element_index >= Len(actual_array)
  THEN Best(used_expected_elements, match_description_lines, log)
  ELSE LET p == contains_each_first_unused(actual_element_index, 0, elements,
                                           actual_array, used_expected_elements, log)
           v == At(actual_array, actual_element_index)
           line == IF p.matched_expected >= 0
                   THEN MatchedLine(v, actual_element_index,
                                    At(elements, p.matched_expected), p.matched_expected)
                   ELSE UnmatchedActualLine(v, actual_element_index)
       IN  contains_each_best_match(actual_element_index + 1, elements, actual_array,
                                    p.used, Append(match_description_lines, line), p.log)

RECURSIVE unmatched_expected_lines(_, _, _)
\* One line per matcher index whose used flag is not set, from index on.
unmatched_expected_lines(index, elements, used) ==
  IF index >= Len(elements) THEN <<>>
  ELSE (IF ~At(used, index)
        THEN <<UnmatchedExpectedLine(At(elements, index), index)>>
        ELSE <<>>)
       \o unmatched_expected_lines(index + 1, elements, used)

contains_each_render(elements, actual_array, log) ==
  LET b == contains_each_best_match(0, elements, actual_array,
                                    AllFalse(Len(elements)), <<>>, log)
  IN  Explanation(
        "which does not have a superset match with the expected elements. The best match found was:\n"
          \o Join(b.lines \o unmatched_expected_lines(0, elements, b.used)),
        b.log)

RECURSIVE contains_each_candidates(_, _, _, _)
\* The loop over self.elements that ensures every matcher has a candidate,
\* from expected_index on, followed by the size check and the rendering.
contains_each_candidates(expected_index, elements, actual_array, log) ==
  LET is_size_insufficient == Len(actual_array) < Len(elements)
  IN  IF expected_index >= Len(elements)
      THEN IF is_size_insufficient
           THEN Explanation("which has size " \o ToString(Len(actual_array))
                              \o " (expected at least " \o ToString(Len(elements))
                              \o ")", log)
           ELSE contains_each_render(elements, actual_array, log)
      ELSE LET sc == has_matching_element(expected_index, 0, elements, actual_array, log)
           IN  IF ~sc.any
               THEN IF is_size_insufficient
                    THEN Explanation(
                           "which has size " \o ToString(Len(actual_array))
                             \o " (expected at least " \o ToString(Len(elements))
                             \o ") and no element matching the expected element #"
                             \o ToString(expected_index), sc.log)
                    ELSE Explanation(
                           "which has no element matching the expected element #"
                             \o ToString(expected_index), sc.log)
               ELSE contains_each_candidates(expected_index + 1, elements,
                                             actual_array, sc.log)

JsonContainsEachMatcher_explain_match(elements, value) ==
  IF value.tag # "Array" THEN Explanation("which is not a JSON array", <<>>)
  ELSE contains_each_candidates(0, elements, value.items, <<>>)

(***************************************************************************)
(* JsonIsContainedInMatcher::explain_match                                 *)
(***************************************************************************)
RECURSIVE is_contained_in_any(_, _, _, _, _)
\* for v in arr { if exp.matches(v).is_match() { any = true; break; } }
\* for the matcher at index i, from element j on.
is_contained_in_any(i, j, elements, arr, log) ==
  IF j >= Len(arr) THEN Scan(FALSE, log)
  ELSE IF Accepts(At(elements, i), At(arr, j)) THEN Scan(TRUE, Append(log, <<i, j>>))
  ELSE is_contained_in_any(i, j + 1, elements, arr, Append(log, <<i, j>>))

RECURSIVE is_contained_in_first_unused(_, _, _, _, _, _)
\* The inner loop of the best-match rendering for the element at index ai,
\* from matcher ei on.
is_contained_in_first_unused(ai, ei, elements, arr, used, log) ==
  IF ei >= Len(elements) THEN [matched |-> -1, used |-> used, log |-> log]
  ELSE IF At(used, ei)
  THEN is_contained_in_first_unused(ai, ei + 1, elements, arr, used, log)
  ELSE IF Accepts(At(elements, ei), At(arr, ai))
       THEN [matched |-> ei, used |-> SetAt(used, ei, TRUE),
             log |-> Append(log, <<ei, ai>>)]
       ELSE is_contained_in_first_unused(ai, ei + 1, elements, arr, used,
                                         Append(log, <<ei, ai>>))

RECURSIVE is_contained_in_best_match(_, _, _, _, _, _)
\* The loop over arr that pushes one line per element, from element ai on.
is_contained_in_best_match(ai, elements, arr, used, lines, log) ==
  IF ai >= Len(arr) THEN Best(used, lines, log)
  ELSE LET p == is_contained_in_first_unused(ai, 0, elements, arr, used, log)
           av == At(arr, ai)
           line == IF p.matched >= 0
                   THEN MatchedLine(av, ai, At(elements, p.matched), p.matched)
                   ELSE UnmatchedActualLine(av, ai)
       IN  is_contained_in_best_match(ai + 1, elements, arr, p.used,
                                      Append(lines, line), p.log)

RECURSIVE is_contained_in_unused_lines(_, _, _)
\* for (ei, em) in self.elements.iter().enumerate() { if !used[ei] { push } }
is_contained_in_unused_lines(ei, elements, used) ==
  IF ei >= Len(elements) THEN <<>>
  ELSE (IF ~At(used, ei) THEN <<UnmatchedExpectedLine(At(elements, ei), ei)>> ELSE <<>>)
       \o is_contained_in_unused_lines(ei + 1, elements, used)

is_contained_in_render(elements, arr, log) ==
  LET b == is_contained_in_best_match(0, elements, arr, AllFalse(Len(elements)),
                                      <<>>, log)
  IN  Explanation(
        "which does not have a subset match with the expected elements. The best match found was:\n"
          \o Join(b.lines \o is_contained_in_unused_lines(0, elements, b.used)),
        b.log)

RECURSIVE is_contained_in_candidates(_, _, _, _)
\* The loop over self.elements, from i on, followed by the size check and
\* the rendering.
is_contained_in_candidates(i, elements, arr, log) ==
  IF i >= Len(elements)
  THEN IF Len(arr) < Len(elements)
       THEN Explanation("which has size " \o ToString(Len(arr))
                          \o " (expected at least " \o ToString(Len(elements)) \o ")",
                        log)
       ELSE is_contained_in_render(elements, arr, log)
  ELSE LET sc == is_contained_in_any(i, 0, elements, arr, log)
       IN  IF ~sc.any
           THEN Explanation("which has no element matching the expected element #"
                              \o ToString(i), sc.log)
           ELSE is_contained_in_candidates(i + 1, elements, arr, sc.log)

JsonIsContainedInMatcher_explain_match(elements, value) ==
  IF value.tag # "Array" THEN Explanation("which is not a JSON array", <<>>)
  ELSE is_contained_in_candidates(0, elements, value.items, <<>>)

(***************************************************************************)
(* Construction and calls                                                  *)
(***************************************************************************)
Requirements == {"PerfectMatch", "Subset", "Superset"}

new(elements) ==
  [struct |-> "JsonUnorderedElementsAre", elements |-> elements,
   requirements |-> "PerfectMatch"]

new_with_requirements(elements, requirements) ==
  [struct |-> "JsonUnorderedElementsAre", elements |-> elements,
   requirements |-> requirements]

\* The two dedicated matcher types have no requirements field.
JsonContainsEachMatcher_new(elements) ==
  [struct |-> "JsonContainsEachMatcher", elements |-> elements,
   requirements |-> "none"]

JsonIsContainedInMatcher_new(elements) ==
  [struct |-> "JsonIsContainedInMatcher", elements |-> elements,
   requirements |-> "none"]

Init ==
  /\ \E es \in MatcherLists :
       \/ self = new(es)
       \/ \E r \in Requirements : self = new_with_requirements(es, r)
       \/ self = JsonContainsEachMatcher_new(es)
       \/ self = JsonIsContainedInMatcher_new(es)
  /\ actual = JsonNull
  /\ op = "none"
  /\ result = "none"
  /\ description = ""
  /\ invoked = <<>>
  /\ search = <<>>

UnorderedMatches ==
  /\ op = "none"
  /\ self.struct = "JsonUnorderedElementsAre"
  /\ \E a \in Actuals :
       LET v == JsonUnorderedElementsAre_matches(self.elements, self.requirements, a)
       IN  /\ actual' = a
           /\ op' = "matches"
           /\ result' = v.result
           /\ description' = ""
           /\ invoked' = v.log
  /\ UNCHANGED <<self, search>>

UnorderedExplainMatch ==
  /\ op = "none"
  /\ self.struct = "JsonUnorderedElementsAre"
  /\ \E a \in Actuals :
       LET e == JsonUnorderedElementsAre_explain_match(self.elements,
                                                        self.requirements, a)
       IN  /\ actual' = a
           /\ op' = "explain_match"
           /\ result' = "none"
           /\ description' = e.text
           /\ invoked' = e.log
  /\ UNCHANGED <<self, search>>

ContainsEachMatches ==
  /\ op = "none"
  /\ self.struct = "JsonContainsEachMatcher"
  /\ \E a \in Actuals :
       LET v == JsonContainsEachMatcher_matches(self.elements, a)
       IN  /\ actual' = a
           /\ op' = "matches"
           /\ result' = v.result
           /\ description' = ""
           /\ invoked' = v.log
  /\ UNCHANGED <<self, search>>

ContainsEachExplainMatch ==
  /\ op = "none"
  /\ self.struct = "JsonContainsEachMatcher"
  /\ \E a \in Actuals :
       LET e == JsonContainsEachMatcher_explain_match(self.elements, a)
       IN  /\ actual' = a
           /\ op' = "explain_match"
           /\ result' = "none"
           /\ description' = e.text
           /\ invoked' = e.log
  /\ UNCHANGED <<self, search>>

IsContainedInMatches ==
  /\ op = "none"
  /\ self.struct = "JsonIsContainedInMatcher"
  /\ \E a \in Actuals :
       LET v == JsonIsContainedInMatcher_matches(self.elements, a)
       IN  /\ actual' = a
           /\ op' = "matches"
           /\ result' = v.result
           /\ description' = ""
           /\ invoked' = v.log
  /\ UNCHANGED <<self, search>>

IsContainedInExplainMatch ==
  /\ op = "none"
  /\ self.struct = "JsonIsContainedInMatcher"
  /\ \E a \in Actuals :
       LET e == JsonIsContainedInMatcher_explain_match(self.elements, a)
       IN  /\ actual' = a
           /\ op' = "explain_match"
           /\ result' = "none"
           /\ description' = e.text
           /\ invoked' = e.log
  /\ UNCHANGED <<self, search>>

\* The caller has consumed the returned value: the argument and everything
\* the call produced go out of scope, the matcher object stays.
Return ==
  /\ op # "none"
  /\ actual' = JsonNull
  /\ op' = "none"
  /\ result' = "none"
  /\ description' = ""
  /\ invoked' = <<>>
  /\ UNCHANGED <<self, search>>

Next ==
  \/ UnorderedMatches
  \/ UnorderedExplainMatch
  \/ ContainsEachMatches
  \/ ContainsEachExplainMatch
  \/ IsContainedInMatches
  \/ IsContainedInExplainMatch
  \/ Return

Spec == Init /\ [][Next]_vars

(***************************************************************************)
(* Paths: matcher_support/path.rs and has_paths of matchers/path_matcher.rs *)
(*                                                                         *)
(* A string is the sequence of its characters, each a one-character string. *)
(***************************************************************************)
MaxPathLen == 3

\* The characters of path strings and field names: a letter, the separator,
\* the escape character and a digit.
Chars == {"a", ".", "\\", "0"}
PathStrings == SeqsUpTo(Chars, MaxPathLen)

\* paths: &[&str], with up to two path strings.
PathLists ==
  {<<>>} \cup {<<p>> : p \in PathStrings} \cup {<<p, q>> : p \in PathStrings, q \in PathStrings}

\* enum PathSegment
Field(name) == [kind |-> "Field", name |-> name, idx |-> 0]
Index(idx) == [kind |-> "Index", name |-> <<>>, idx |-> idx]

\* serde_json::Value with contents: a number, an array of values, an object
\* mapping its keys to values.
JsonNumber(n) == [tag |-> "Number", n |-> n]
JsonObjectOf(map) == [tag |-> "Object", map |-> map]
is_object(v) == v.tag = "Object"

\* The values has_paths is called with.
PathValues ==
  { JsonNull,
    JsonNumber(1),
    JsonArray(<<JsonNumber(1)>>),
    JsonObjectOf(<<>>),
    JsonObjectOf([k \in {<<"a">>} |-> JsonNumber(1)]),
    JsonObjectOf([k \in {<<"a">>} |-> JsonArray(<<JsonNumber(1)>>)]),
    JsonObjectOf([k \in {<<"a">>} |-> JsonObjectOf([j \in {<<"a">>} |-> JsonNumber(1)])]),
    JsonObjectOf([k \in {<<"0">>, <<".">>} |-> JsonNumber(1)]),
    JsonObjectOf([k \in {<<"a">>, <<"a", "a">>} |-> JsonObjectOf(<<>>)]) }

Ok(segments) == [ok |-> TRUE, segments |-> segments, err |-> ""]
Err(err) == [ok |-> FALSE, segments |-> <<>>, err |-> err]

DigitChars == <<"0", "1", "2", "3", "4", "5", "6", "7", "8", "9">>
Digits == {DigitChars[k] : k \in DOMAIN DigitChars}
DigitValue(ch) == (CHOOSE k \in DOMAIN DigitChars : DigitChars[k] = ch) - 1

RECURSIVE DecimalValue(_)
DecimalValue(digits) ==
  IF digits = <<>> THEN 0
  ELSE 10 * DecimalValue(SubSeq(digits, 1, Len(digits) - 1)) + DigitValue(digits[Len(digits)])

\* current.parse::<usize>(): an optional plus sign, then one digit or more.
parse_usize(current) ==
  LET digits == IF current # <<>> /\ current[1] = "+" THEN Tail(current) ELSE current
  IN  IF digits # <<>> /\ \A k \in DOMAIN digits : digits[k] \in Digits
      THEN [ok |-> TRUE, idx |-> DecimalValue(digits)]
      ELSE [ok |-> FALSE, idx |-> 0]

push_segment(segments, current) ==
  IF current = <<>> THEN Err("empty segment")
  ELSE LET n == parse_usize(current)
       IN  IF n.ok THEN Ok(Append(segments, Index(n.idx)))
           ELSE Ok(Append(segments, Field(current)))

RECURSIVE parse_path_loop(_, _, _, _)
\* The while loop of parse_path from character i on, and the push_segment that
\* follows it.
parse_path_loop(path, i, segments, current) ==
  IF i > Len(path) THEN push_segment(segments, current)
  ELSE IF path[i] = "\\"
  THEN IF i + 1 <= Len(path)
       THEN parse_path_loop(path, i + 2, segments, Append(current, path[i + 1]))
       ELSE Err("trailing escape")
  ELSE IF path[i] = "."
  THEN LET r == push_segment(segments, current)
       IN  IF r.ok THEN parse_path_loop(path, i + 1, r.segments, <<>>) ELSE r
  ELSE parse_path_loop(path, i + 1, segments, Append(current, path[i]))

parse_path(path) == parse_path_loop(path, 1, <<>>, <<>>)

ParsedPath(raw, segments) == [raw |-> raw, segments |-> segments]
ParsedPaths(parsed, errors) == [parsed |-> parsed, errors |-> errors]

RECURSIVE parse_expected_paths_loop(_, _, _, _)
parse_expected_paths_loop(paths, i, parsed, errors) ==
  IF i > Len(paths) THEN ParsedPaths(parsed, errors)
  ELSE LET r == parse_path(paths[i])
       IN  IF r.ok
           THEN parse_expected_paths_loop(paths, i + 1,
                  Append(parsed, ParsedPath(paths[i], r.segments)), errors)
           ELSE parse_expected_paths_loop(paths, i + 1, parsed, Append(errors, r.err))

\* parse_expected_paths that drops the path strings it cannot parse.
parse_expected_paths_dropping_errors(paths) ==
  ParsedPaths(parse_expected_paths_loop(paths, 1, <<>>, <<>>).parsed, <<>>)

parse_expected_paths(paths) == parse_expected_paths_loop(paths, 1, <<>>, <<>>)

RECURSIVE collect_paths_inner(_, _)
collect_paths_inner(value, current) ==
  (IF current # <<>> THEN {current} ELSE {})
    \cup CASE value.tag = "Object" ->
                UNION {collect_paths_inner(value.map[k], Append(current, Field(k)))
                         : k \in DOMAIN value.map}
           [] value.tag = "Array" ->
                UNION {collect_paths_inner(value.items[k], Append(current, Index(k - 1)))
                         : k \in DOMAIN value.items}
           [] OTHER -> {}

collect_paths(value) == collect_paths_inner(value, <<>>)

RECURSIVE escape_field(_)
escape_field(field) ==
  IF field = <<>> THEN <<>>
  ELSE (IF Head(field) = "." THEN <<"\\", ".">>
        ELSE IF Head(field) = "\\" THEN <<"\\", "\\">>
        ELSE <<Head(field)>>) \o escape_field(Tail(field))

RECURSIVE to_string(_)
\* i.to_string() of a usize: its decimal digits.
to_string(i) ==
  IF i < 10 THEN <<DigitChars[i + 1]>>
  ELSE to_string(i \div 10) \o <<DigitChars[(i % 10) + 1]>>

format_segment(segment) ==
  IF segment.kind = "Field" THEN escape_field(segment.name) ELSE to_string(segment.idx)

RECURSIVE format_path(_)
\* The formatted segments joined by ".".
format_path(path) ==
  IF path = <<>> THEN <<>>
  ELSE IF Len(path) = 1 THEN format_segment(path[1])
  ELSE format_segment(path[1]) \o <<".">> \o format_path(Tail(path))

\* has_paths(paths): the matcher object, with what its predicate captures.
has_paths(paths) ==
  LET pp == parse_expected_paths(paths)
  IN  [struct |-> "has_paths",
       paths |-> paths,
       expected_set |-> {pp.parsed[k].segments : k \in DOMAIN pp.parsed},
       errors |-> pp.errors]

\* The predicate closure of has_paths.
has_paths_predicate(expected_set, errors, v) ==
  IF errors # <<>> \/ ~is_object(v) THEN FALSE
  ELSE LET actual_paths == collect_paths(v)
       IN  \A p \in expected_set : p \in actual_paths

\* JsonPredicateMatcher::matches
JsonPredicateMatcher_matches(matcher, v) ==
  IF has_paths_predicate(matcher.expected_set, matcher.errors, v) THEN "Match" ELSE "NoMatch"

InitPaths ==
  /\ \E paths \in PathLists : self = has_paths(paths)
  /\ actual = JsonNull
  /\ op = "none"
  /\ result = "none"
  /\ description = ""
  /\ invoked = <<>>
  /\ search = <<>>

HasPathsMatches ==
  /\ op = "none"
  /\ self.struct = "has_paths"
  /\ \E v \in PathValues :
       /\ actual' = v
       /\ op' = "matches"
       /\ result' = JsonPredicateMatcher_matches(self, v)
  /\ UNCHANGED <<self, description, invoked, search>>

NextPaths ==
  \/ HasPathsMatches
  \/ Return

SpecPaths == InitPaths /\ [][NextPaths]_vars

(***************************************************************************)
(* format_path followed by parse_path, on lists of path segments            *)
(***************************************************************************)
MaxFieldLen == 2
MaxIndex == 1

\* Field names as serde_json::Map holds them (any string is a key), and array
\* indices.
FieldNames == SeqsUpTo(Chars, MaxFieldLen)
Segments == {Field(name) : name \in FieldNames} \cup {Index(i) : i \in 0..MaxIndex}

\* path: &[PathSegment], with up to two segments.
SegmentLists ==
  {<<>>} \cup {<<a>> : a \in Segments} \cup {<<a, b>> : a \in Segments, b \in Segments}

InitFormat ==
  /\ \E path \in SegmentLists : self = [struct |-> "format_path", path |-> path]
  /\ actual = JsonNull
  /\ op = "none"
  /\ result = "none"
  /\ description = ""
  /\ invoked = <<>>
  /\ search = <<>>

\* format_path(&path): the string is kept in result.
FormatPath ==
  /\ op = "none"
  /\ self.struct = "format_path"
  /\ op' = "format_path"
  /\ result' = format_path(self.path)
  /\ UNCHANGED <<self, actual, description, invoked, search>>

\* parse_path of the string format_path produced.
ParsePath ==
  /\ op = "format_path"
  /\ op' = "parse_path"
  /\ result' = parse_path(result)
  /\ UNCHANGED <<self, actual, description, invoked, search>>

NextFormat ==
  \/ FormatPath
  \/ ParsePath
  \/ Return

SpecFormat == InitFormat /\ [][NextFormat]_vars

(***************************************************************************)
(* matches step by step: the call stack of the assignment search of        *)
(* JsonUnorderedElementsAre::matches and JsonContainsEachMatcher::matches   *)
(***************************************************************************)
\* An element matcher behind Box<dyn Matcher>: either a matcher on numbers,
\* given by the values it accepts, or an unordered matcher of this module.
Leaf(accepted) == [struct |-> "leaf", accepts |-> accepted]
Boxed(elements) == [k \in DOMAIN elements |-> Leaf(elements[k])]
BoxedArray(items) == JsonArray([k \in DOMAIN items |-> JsonNumber(items[k])])

\* One activation of backtrack, backtrack_subset or find_matching_assignment:
\* its parameter i, its loop variable j, where it stands, and the used flags
\* as they were when it was entered.
Frame(i, j, pc, entry) == [i |-> i, j |-> j, pc |-> pc, entry |-> entry]

\* One activation of matches: the matcher object, the elements of the array,
\* the local vector of used flags and the activations of the search function.
Activation(matcher, arr, used, frames) ==
  [matcher |-> matcher, arr |-> arr, used |-> used, frames |-> frames]

NoReturn == [ok |-> "none", depth |-> 0, entry |-> <<>>, used |-> <<>>]

\* A caller about to call matches with the argument arg.
Caller(arg) ==
  [arg |-> arg, state |-> "idle", acts |-> <<>>, bret |-> "none", mret |-> "none",
   verdict |-> "none", last |-> NoReturn]

is_subset(matcher) ==
  matcher.struct = "JsonUnorderedElementsAre" /\ matcher.requirements = "Subset"

\* The size test that precedes the search.
size_refused(matcher, arr) ==
  CASE matcher.struct = "JsonContainsEachMatcher" -> Len(arr) < Len(matcher.elements)
    [] matcher.requirements = "PerfectMatch" -> Len(arr) # Len(matcher.elements)
    [] matcher.requirements = "Superset" -> Len(arr) < Len(matcher.elements)
    [] matcher.requirements = "Subset" -> Len(matcher.elements) < Len(arr)

\* matches up to the first call of the search function: a verdict at once,
\* or the activation with let mut used = vec![false; n] and the call at i = 0.
matches_entry(matcher, value) ==
  IF matcher.struct = "leaf"
  THEN [done |-> TRUE,
        verdict |-> IF value.tag = "Number" /\ value.n \in matcher.accepts
                    THEN "Match" ELSE "NoMatch"]
  ELSE IF value.tag # "Array" \/ size_refused(matcher, value.items)
  THEN [done |-> TRUE, verdict |-> "NoMatch"]
  ELSE LET used == AllFalse(IF is_subset(matcher) THEN Len(matcher.elements)
                            ELSE Len(value.items))
       IN  [done |-> FALSE, verdict |-> "none",
            act |-> Activation(matcher, value.items, used, <<Frame(0, 0, "entry", used)>>)]

TopAct(t) == t.acts[Len(t.acts)]
TopFrame(t) == TopAct(t).frames[Len(TopAct(t).frames)]

\* The number of vertices to place and the number of candidate partners.
OuterLen(a) == IF is_subset(a.matcher) THEN Len(a.arr) ELSE Len(a.matcher.elements)
CandLen(a) == IF is_subset(a.matcher) THEN Len(a.matcher.elements) ELSE Len(a.arr)

\* expected[i] and actual[j]; matchers[j] and actual[i] in backtrack_subset.
ElementMatcher(a, i, j) ==
  IF is_subset(a.matcher) THEN At(a.matcher.elements, j) ELSE At(a.matcher.elements, i)
ElementValue(a, i, j) == IF is_subset(a.matcher) THEN At(a.arr, i) ELSE At(a.arr, j)

InFrame(c, pc) ==
  /\ search[c].state = "running"
  /\ search[c].acts # <<>>
  /\ TopAct(search[c]).frames # <<>>
  /\ TopFrame(search[c]).pc = pc

WithFrame(t, f) ==
  [t EXCEPT !.acts[Len(t.acts)].frames[Len(TopAct(t).frames)] = f]
WithUsed(t, used) == [t EXCEPT !.acts[Len(t.acts)].used = used]
PushFrame(t, f) == [t EXCEPT !.acts[Len(t.acts)].frames = Append(@, f)]

\* return ok from the running activation of the search function.
PopFrame(t, ok) ==
  [t EXCEPT !.acts[Len(t.acts)].frames = SubSeq(@, 1, Len(@) - 1),
            !.bret = ok,
            !.last = [ok |-> ok, depth |-> TopFrame(t).i,
                      entry |-> TopFrame(t).entry, used |-> TopAct(t).used]]

\* Step with one vector of used flags for all callers, as a static buffer
\* would be: a write by one caller shows in the running search of the others.
Step_shared_flags(c, t) ==
  /\ search' = [d \in DOMAIN search |->
                  IF d = c THEN t
                  ELSE IF /\ search[d].acts # <<>> /\ t.acts # <<>>
                          /\ Len(TopAct(search[d]).used) = Len(TopAct(t).used)
                       THEN WithUsed(search[d], TopAct(t).used)
                       ELSE search[d]]
  /\ UNCHANGED <<self, actual, op, result, description, invoked>>

Step(c, t) ==
  /\ search' = [search EXCEPT ![c] = t]
  /\ UNCHANGED <<self, actual, op, result, description, invoked>>

\* self.matches(&arg) is called.
MatchesCall(c) ==
  /\ search[c].state = "idle"
  /\ LET e == matches_entry(self, search[c].arg)
     IN  Step(c, IF e.done
                 THEN [search[c] EXCEPT !.state = "returned", !.verdict = e.verdict]
                 ELSE [search[c] EXCEPT !.state = "running", !.acts = <<e.act>>])

\* if i == expected.len() { return true; }
BacktrackReturnTrue(c) ==
  /\ InFrame(c, "entry")
  /\ TopFrame(search[c]).i = OuterLen(TopAct(search[c]))
  /\ Step(c, PopFrame(search[c], "true"))

\* for j in 0..actual.len()
BacktrackEnterLoop(c) ==
  /\ InFrame(c, "entry")
  /\ TopFrame(search[c]).i # OuterLen(TopAct(search[c]))
  /\ Step(c, WithFrame(search[c], [TopFrame(search[c]) EXCEPT !.pc = "loop", !.j = 0]))

\* The loop is over: false.
BacktrackExhausted(c) ==
  /\ InFrame(c, "loop")
  /\ TopFrame(search[c]).j >= CandLen(TopAct(search[c]))
  /\ Step(c, PopFrame(search[c], "false"))

\* if used[j] { continue; }
BacktrackSkipUsed(c) ==
  /\ InFrame(c, "loop")
  /\ TopFrame(search[c]).j < CandLen(TopAct(search[c]))
  /\ At(TopAct(search[c]).used, TopFrame(search[c]).j)
  /\ Step(c, WithFrame(search[c], [TopFrame(search[c]) EXCEPT !.j = @ + 1]))

\* expected[i].matches(&actual[j]) is called: a matcher on numbers answers at
\* once, an unordered matcher starts its own activation of matches.
BacktrackInvoke(c) ==
  /\ InFrame(c, "loop")
  /\ TopFrame(search[c]).j < CandLen(TopAct(search[c]))
  /\ ~At(TopAct(search[c]).used, TopFrame(search[c]).j)
  /\ LET f == TopFrame(search[c])
         e == matches_entry(ElementMatcher(TopAct(search[c]), f.i, f.j),
                            ElementValue(TopAct(search[c]), f.i, f.j))
         t == WithFrame(search[c], [f EXCEPT !.pc = "invoked"])
     IN  Step(c, IF e.done THEN [t EXCEPT !.mret = e.verdict]
                 ELSE [t EXCEPT !.acts = Append(@, e.act)])

\* BacktrackAccepted that does not set the used flag.
BacktrackAccepted_unmarked(c) ==
  /\ InFrame(c, "invoked")
  /\ search[c].mret = "Match"
  /\ LET f == TopFrame(search[c])
         used == TopAct(search[c]).used
     IN  Step(c, [PushFrame(WithFrame(search[c], [f EXCEPT !.pc = "called"]),
                            Frame(f.i + 1, 0, "entry", used))
                    EXCEPT !.mret = "none"])

\* is_match(): used[j] = true; and the call at i + 1.
BacktrackAccepted(c) ==
  /\ InFrame(c, "invoked")
  /\ search[c].mret = "Match"
  /\ LET f == TopFrame(search[c])
         used == SetAt(TopAct(search[c]).used, f.j, TRUE)
     IN  Step(c, [PushFrame(WithUsed(WithFrame(search[c], [f EXCEPT !.pc = "called"]), used),
                            Frame(f.i + 1, 0, "entry", used))
                    EXCEPT !.mret = "none"])

\* BacktrackRejected that stays at the same candidate.
BacktrackRejected_retrying(c) ==
  /\ InFrame(c, "invoked")
  /\ search[c].mret = "NoMatch"
  /\ Step(c, [WithFrame(search[c], [TopFrame(search[c]) EXCEPT !.pc = "loop"])
                EXCEPT !.mret = "none"])

\* The element matcher did not match: next j.
BacktrackRejected(c) ==
  /\ InFrame(c, "invoked")
  /\ search[c].mret = "NoMatch"
  /\ Step(c, [WithFrame(search[c], [TopFrame(search[c]) EXCEPT !.pc = "loop", !.j = @ + 1])
                EXCEPT !.mret = "none"])

\* if backtrack(i + 1, ..) { return true; }
BacktrackCalleeTrue(c) ==
  /\ InFrame(c, "called")
  /\ search[c].bret = "true"
  /\ Step(c, PopFrame(search[c], "true"))

\* BacktrackCalleeFalse that leaves the used flag set.
BacktrackCalleeFalse_keeping_flag(c) ==
  /\ InFrame(c, "called")
  /\ search[c].bret = "false"
  /\ Step(c, [WithFrame(search[c], [TopFrame(search[c]) EXCEPT !.pc = "loop", !.j = @ + 1])
                EXCEPT !.bret = "none"])

\* The call at i + 1 returned false: used[j] = false; and the next j.
BacktrackCalleeFalse(c) ==
  /\ InFrame(c, "called")
  /\ search[c].bret = "false"
  /\ LET f == TopFrame(search[c])
     IN  Step(c, [WithUsed(WithFrame(search[c], [f EXCEPT !.pc = "loop", !.j = @ + 1]),
                           SetAt(TopAct(search[c]).used, f.j, FALSE))
                    EXCEPT !.bret = "none"])

\* The call at i = 0 returned: matches returns Match or NoMatch, to the caller
\* or to the activation of the search function that invoked this matcher.
MatchesReturn(c) ==
  /\ search[c].state = "running"
  /\ search[c].acts # <<>>
  /\ TopAct(search[c]).frames = <<>>
  /\ LET v == IF search[c].bret = "true" THEN "Match" ELSE "NoMatch"
         rest == SubSeq(search[c].acts, 1, Len(search[c].acts) - 1)
     IN  Step(c, IF rest = <<>>
                 THEN [search[c] EXCEPT !.acts = rest, !.bret = "none",
                                        !.state = "returned", !.verdict = v]
                 ELSE [search[c] EXCEPT !.acts = rest, !.bret = "none", !.mret = v])

\* The matcher objects and arguments of the searches followed step by step.
SearchMatchers ==
  {new_with_requirements(Boxed(es), r) : es \in MatcherLists, r \in Requirements}
    \cup {JsonContainsEachMatcher_new(Boxed(es)) : es \in MatcherLists}
SearchValues == {BoxedArray(s) : s \in SeqsUpTo(Values, MaxLen)} \cup {JsonObject}

InitSearch ==
  /\ self \in SearchMatchers
  /\ \E v \in SearchValues : search = [c \in {1} |-> Caller(v)]
  /\ actual = JsonNull
  /\ op = "none"
  /\ result = "none"
  /\ description = ""
  /\ invoked = <<>>

NextSearch ==
  \/ \E c \in DOMAIN search : MatchesCall(c)
  \/ \E c \in DOMAIN search : BacktrackReturnTrue(c)
  \/ \E c \in DOMAIN search : BacktrackEnterLoop(c)
  \/ \E c \in DOMAIN search : BacktrackExhausted(c)
  \/ \E c \in DOMAIN search : BacktrackSkipUsed(c)
  \/ \E c \in DOMAIN search : BacktrackInvoke(c)
  \/ \E c \in DOMAIN search : BacktrackAccepted(c)
  \/ \E c \in DOMAIN search : BacktrackRejected(c)
  \/ \E c \in DOMAIN search : BacktrackCalleeTrue(c)
  \/ \E c \in DOMAIN search : BacktrackCalleeFalse(c)
  \/ \E c \in DOMAIN search : MatchesReturn(c)

SpecSearch == InitSearch /\ [][NextSearch]_vars

\* The same calls, each running to its end: matches is synchronous code.
SpecSearchFair == SpecSearch /\ WF_vars(NextSearch)

(***************************************************************************)
(* Two callers of one matcher object whose element matchers are unordered  *)
(* matchers themselves: unordered_elements_are![unordered_elements_are![..],*)
(* ..] on an array of arrays                                               *)
(***************************************************************************)
InnerLists == {<<{1}, {2}>>, <<{1, 2}, {1}>>}
InnerMatchers == {new(Boxed(es)) : es \in InnerLists}
InnerValues == {BoxedArray(items) : items \in {<<2>>, <<1, 2>>, <<2, 1>>}}

CallerMatchers ==
  {new_with_requirements(<<a, b>>, r) :
     a \in InnerMatchers, b \in InnerMatchers, r \in {"PerfectMatch", "Subset"}}
CallerValues == {JsonArray(<<x, y>>) : x \in InnerValues, y \in InnerValues}

InitCallers ==
  /\ self \in CallerMatchers
  /\ \E v \in CallerValues, w \in CallerValues : search = <<Caller(v), Caller(w)>>
  /\ actual = JsonNull
  /\ op = "none"
  /\ result = "none"
  /\ description = ""
  /\ invoked = <<>>

\* The steps of the two callers in any order.
SpecCallers == InitCallers /\ [][NextSearch]_vars

(***************************************************************************)
(* Properties                                                              *)
(***************************************************************************)
IsInjective(f) == \A a, b \in DOMAIN f : a # b => f[a] # f[b]

\* Every matcher can be given its own accepted element.
ExpectedSaturated(elements, arr) ==
  \E f \in [1..Len(elements) -> 1..Len(arr)] :
    IsInjective(f) /\ \A k \in 1..Len(elements) : Accepts(elements[k], arr[f[k]])

\* Every element can be given its own accepting matcher.
ActualSaturated(elements, arr) ==
  \E f \in [1..Len(arr) -> 1..Len(elements)] :
    IsInjective(f) /\ \A k \in 1..Len(arr) : Accepts(elements[f[k]], arr[k])

Perms(n) == {f \in [1..n -> 1..n] : IsInjective(f)}
Permute(s, f) == [k \in 1..Len(s) |-> s[f[k]]]

\* Non-empty sequences appended in the append properties.
MaxExtra == 2
ExtraValues == SeqsUpTo(Values, MaxExtra) \ {<<>>}
ExtraMatchers == SeqsUpTo(Matchers, MaxExtra) \ {<<>>}

Unordered(requirements) ==
  /\ self.struct = "JsonUnorderedElementsAre"
  /\ self.requirements = requirements

MatchesCalledOnArray == op = "matches" /\ actual.tag = "Array"
ExplainCalledOnArray == op = "explain_match" /\ actual.tag = "Array"

n_actual == Len(actual.items)
m_expected == Len(self.elements)

C2_SupersetIffExpectedSaturated ==
  (MatchesCalledOnArray
     /\ (Unordered("Superset") \/ self.struct = "JsonContainsEachMatcher")) =>
    (result = "Match" <=>
       (n_actual >= m_expected /\ ExpectedSaturated(self.elements, actual.items)))

\* A contains-each call that matched with an element left over.
C2_Witness ==
  /\ MatchesCalledOnArray /\ self.struct = "JsonContainsEachMatcher"
  /\ m_expected = 2 /\ n_actual = 3 /\ result = "Match"

\* C3: under Subset, matches returns Match if and only if m >= n and every
\* element can be assigned a distinct matcher that accepts it; unused
\* matchers are tolerated and no matcher serves two elements.
C3_SubsetIffActualSaturated ==
  (MatchesCalledOnArray /\ Unordered("Subset")) =>
    (result = "Match" <=>
       (m_expected >= n_actual /\ ActualSaturated(self.elements, actual.items)))

\* A Subset call refused although every element has an accepting matcher and
\* the sizes fit: two elements compete for one matcher.
C3_Witness ==
  /\ MatchesCalledOnArray /\ Unordered("Subset")
  /\ m_expected >= n_actual /\ n_actual >= 2 /\ result = "NoMatch"
  /\ \A k \in 1..n_actual : \E j \in 1..m_expected :
       Accepts(self.elements[j], actual.items[k])

\* C4: for JsonIsContainedInMatcher the order does not matter: permuting the
\* matcher list or the array never changes the verdict of matches, which is
\* Match exactly when every element can be given its own accepting matcher.
C4_IsContainedInOrderIndependent ==
  (MatchesCalledOnArray /\ self.struct = "JsonIsContainedInMatcher") =>
    /\ \A p \in Perms(m_expected) :
         JsonIsContainedInMatcher_matches(Permute(self.elements, p), actual).result
           = result
    /\ \A p \in Perms(n_actual) :
         JsonIsContainedInMatcher_matches(self.elements,
                                          JsonArray(Permute(actual.items, p))).result
           = result
    /\ (result = "Match" <=> ActualSaturated(self.elements, actual.items))

C6_PerfectMatchOrderIndependent ==
  (MatchesCalledOnArray /\ Unordered("PerfectMatch") /\ n_actual = m_expected) =>
    \A p \in Perms(n_actual) :
      /\ JsonUnorderedElementsAre_matches(
           self.elements, "PerfectMatch", JsonArray(Permute(actual.items, p))).result
           = result
      /\ JsonUnorderedElementsAre_matches(
           Permute(self.elements, p), "PerfectMatch", actual).result = result

\* A PerfectMatch call on three elements, not all equal, that matched with
\* matchers that are not all the same.
C6_Witness ==
  /\ MatchesCalledOnArray /\ Unordered("PerfectMatch")
  /\ n_actual = 3 /\ m_expected = 3 /\ result = "Match"
  /\ actual.items[1] # actual.items[3]
  /\ self.elements[1] # self.elements[2]
  /\ Len(invoked) > 3

\* C7: under Superset, a Match stays a Match after extra elements are
\* appended to the array.
C7_SupersetAppendElements ==
  (MatchesCalledOnArray /\ result = "Match") =>
    /\ Unordered("Superset") =>
         \A extra \in ExtraValues :
           JsonUnorderedElementsAre_matches(
             self.elements, "Superset", JsonArray(actual.items \o extra)).result
             = "Match"
    /\ self.struct = "JsonContainsEachMatcher" =>
         \A extra \in ExtraValues :
           JsonContainsEachMatcher_matches(
             self.elements, JsonArray(actual.items \o extra)).result = "Match"

\* A Superset call that matched with as many elements as matchers, so that
\* every appended element is an extra one.
C7_Witness ==
  /\ MatchesCalledOnArray /\ Unordered("Superset")
  /\ result = "Match" /\ n_actual = 2 /\ m_expected = 2

\* C8: under Subset, a Match stays a Match after extra matchers are appended
\* to the matcher list.
C8_SubsetAppendMatchers ==
  (MatchesCalledOnArray /\ result = "Match") =>
    /\ Unordered("Subset") =>
         \A extra \in ExtraMatchers :
           JsonUnorderedElementsAre_matches(
             self.elements \o extra, "Subset", actual).result = "Match"
    /\ self.struct = "JsonIsContainedInMatcher" =>
         \A extra \in ExtraMatchers :
           JsonIsContainedInMatcher_matches(self.elements \o extra, actual).result
             = "Match"

\* A Subset call that matched with as many matchers as elements.
C8_Witness ==
  /\ MatchesCalledOnArray /\ Unordered("Subset")
  /\ result = "Match" /\ n_actual = 2 /\ m_expected = 2

SizeMessage(relation) ==
  "which has size " \o ToString(n_actual) \o " (expected " \o relation
    \o ToString(m_expected) \o ")"

\* C9: whenever the cardinality precondition of the mode is violated (n # m
\* for PerfectMatch, n < m for Superset, m < n for Subset), explain_match
\* returns exactly the size message and nothing else.
C9_SizeMessageOnly ==
  (ExplainCalledOnArray /\ self.struct = "JsonUnorderedElementsAre") =>
    /\ (self.requirements = "PerfectMatch" /\ n_actual # m_expected) =>
         description = SizeMessage("")
    /\ (self.requirements = "Superset" /\ n_actual < m_expected) =>
         description = SizeMessage("at least ")
    /\ (self.requirements = "Subset" /\ m_expected < n_actual) =>
         description = SizeMessage("at most ")

\* C10: for JsonContainsEachMatcher with n < m, matches and explain_match
\* evaluate no (element, matcher) pair, and explain_match yields exactly
\* 'which has size n (expected at least m)'.
C10_ContainsEachShortArray ==
  (self.struct = "JsonContainsEachMatcher" /\ actual.tag = "Array"
     /\ op # "none" /\ n_actual < m_expected) =>
    /\ invoked = <<>>
    /\ op = "explain_match" => description = SizeMessage("at least ")

\* The size precondition of the mode of the matcher object holds.
SizesFit ==
  CASE self.struct = "JsonContainsEachMatcher" -> n_actual >= m_expected
    [] self.struct = "JsonIsContainedInMatcher" -> m_expected >= n_actual
    [] self.requirements = "PerfectMatch" -> n_actual = m_expected
    [] self.requirements = "Superset" -> n_actual >= m_expected
    [] self.requirements = "Subset" -> m_expected >= n_actual

Times(pair) == Cardinality({k \in 1..Len(invoked) : invoked[k] = pair})

\* C11: within one matches call, each element matcher is invoked exactly once
\* for each (array element, matcher) pair: no pair is evaluated a second time
\* during the search and no pair is skipped.
C11_EachPairInvokedOnce ==
  (MatchesCalledOnArray /\ SizesFit
     /\ self.struct \in {"JsonUnorderedElementsAre", "JsonContainsEachMatcher"}) =>
    \A i \in 0..(m_expected - 1) : \A j \in 0..(n_actual - 1) : Times(<<i, j>>) = 1

\* Matcher indices that accept no element, and element indices accepted by no
\* matcher (0-based).
UnmatchableExpected ==
  {i \in 0..(m_expected - 1) :
     \A j \in 0..(n_actual - 1) : ~Accepts(At(self.elements, i), At(actual.items, j))}
UnmatchableActual ==
  {j \in 0..(n_actual - 1) :
     \A i \in 0..(m_expected - 1) : ~Accepts(At(self.elements, i), At(actual.items, j))}

RECURSIVE IndexList(_)
\* "#i, #j, ..." in ascending order.
IndexList(S) ==
  IF S = {} THEN ""
  ELSE LET least == CHOOSE x \in S : \A y \in S : x <= y
       IN  "#" \o ToString(least)
             \o (IF S = {least} THEN "" ELSE ", " \o IndexList(S \ {least}))

ExpectedClause(E) ==
  IF Cardinality(E) = 1 THEN "element matching the expected element " \o IndexList(E)
  ELSE "elements matching the expected elements " \o IndexList(E)

ActualClause(A) ==
  IF Cardinality(A) = 1
  THEN "whose element " \o IndexList(A) \o " does not match any expected elements"
  ELSE "whose elements " \o IndexList(A) \o " do not match any expected elements"

BothClauses(A, E) ==
  ActualClause(A) \o " and no elements match the expected "
    \o (IF Cardinality(E) = 1 THEN "element " ELSE "elements ") \o IndexList(E)

\* The text that lists every unmatchable index of the two sides.
UnmatchableText(A, E) ==
  IF A = {} THEN "which has no " \o ExpectedClause(E)
  ELSE IF E = {} THEN ActualClause(A)
  ELSE BothClauses(A, E)

\* C12: when the sizes satisfy the mode but some vertices are structurally
\* unmatchable, explain_match lists every such index, ascending and
\* comma-joined: the matcher indices that accept no element (PerfectMatch,
\* Superset) and the element indices accepted by no matcher (PerfectMatch,
\* Subset), not only the first one found.
C12_ListsEveryUnmatchableIndex ==
  (ExplainCalledOnArray /\ self.struct = "JsonUnorderedElementsAre" /\ SizesFit) =>
    LET A == IF self.requirements = "Superset" THEN {} ELSE UnmatchableActual
        E == IF self.requirements = "Subset" THEN {} ELSE UnmatchableExpected
    IN  (A # {} \/ E # {}) => description = UnmatchableText(A, E)

\* C13: under PerfectMatch with n = m, when some element is accepted by no
\* matcher and some matcher accepts no element, explain_match reports both
\* facts in one message, the two clauses joined by 'and'.
C13_BothClausesJoined ==
  (ExplainCalledOnArray /\ Unordered("PerfectMatch") /\ n_actual = m_expected
     /\ UnmatchableActual # {} /\ UnmatchableExpected # {}) =>
    description = BothClauses(UnmatchableActual, UnmatchableExpected)

\* A partial one-to-one pairing of array elements with accepting matchers:
\* f[k] is the 0-based matcher index paired with element k - 1, or -1.
Assignments(elements, arr) ==
  {f \in [1..Len(arr) -> -1..(Len(elements) - 1)] :
     /\ \A a, b \in 1..Len(arr) : (a # b /\ f[a] # -1) => f[a] # f[b]
     /\ \A a \in 1..Len(arr) : f[a] # -1 => Accepts(At(elements, f[a]), arr[a])}

Pairs(f) == Cardinality({a \in DOMAIN f : f[a] # -1})

MaximumAssignments(elements, arr) ==
  {f \in Assignments(elements, arr) :
     \A g \in Assignments(elements, arr) : Pairs(g) <= Pairs(f)}

\* One line per array element, in index order, then one line per matcher
\* index left unpaired.
AssignmentLines(elements, arr, f) ==
  [a \in 1..Len(arr) |->
     IF f[a] # -1 THEN MatchedLine(arr[a], a - 1, At(elements, f[a]), f[a])
     ELSE UnmatchedActualLine(arr[a], a - 1)]
  \o unmatched_expected_lines(
       0, elements,
       [k \in 1..Len(elements) |-> \E a \in 1..Len(arr) : f[a] = k - 1])

RenderAssignment(word, elements, arr, f) ==
  "which does not have a " \o word
    \o " match with the expected elements. The best match found was:\n"
    \o Join(AssignmentLines(elements, arr, f))

ModeWord ==
  CASE self.struct = "JsonContainsEachMatcher" -> "superset"
    [] self.struct = "JsonIsContainedInMatcher" -> "subset"
    [] self.requirements = "PerfectMatch" -> "perfect"
    [] self.requirements = "Superset" -> "superset"
    [] self.requirements = "Subset" -> "subset"

\* C14: when every element has an accepting matcher and every matcher accepts
\* some element but no assignment satisfies the mode, explain_match renders a
\* best-match assignment: one line per array element, then one line per
\* matcher index left unpaired.
C14_ConflictRendersBestMatch ==
  (ExplainCalledOnArray /\ self.struct = "JsonUnorderedElementsAre" /\ SizesFit
     /\ UnmatchableActual = {} /\ UnmatchableExpected = {}
     /\ JsonUnorderedElementsAre_matches(self.elements, self.requirements,
                                         actual).result = "NoMatch") =>
    \E f \in Assignments(self.elements, actual.items) :
      description = RenderAssignment(ModeWord, self.elements, actual.items, f)

\* C15: the best-match assignment shown in a failure explanation of
\* JsonContainsEachMatcher and JsonIsContainedInMatcher is a maximum matching:
\* no other one-to-one pairing of elements with accepting matchers has more
\* pairs.
C15_BestMatchIsMaximum ==
  (ExplainCalledOnArray /\ n_actual >= m_expected /\ UnmatchableExpected = {}
     /\ \/ /\ self.struct = "JsonContainsEachMatcher"
           /\ JsonContainsEachMatcher_matches(self.elements, actual).result = "NoMatch"
        \/ /\ self.struct = "JsonIsContainedInMatcher"
           /\ JsonIsContainedInMatcher_matches(self.elements, actual).result
                = "NoMatch") =>
    \E f \in MaximumAssignments(self.elements, actual.items) :
      description = RenderAssignment(ModeWord, self.elements, actual.items, f)

\* The verdict of matches of the matcher object on a value.
MatchesOf(value) ==
  CASE self.struct = "JsonUnorderedElementsAre" ->
         JsonUnorderedElementsAre_matches(self.elements, self.requirements, value).result
    [] self.struct = "JsonContainsEachMatcher" ->
         JsonContainsEachMatcher_matches(self.elements, value).result
    [] self.struct = "JsonIsContainedInMatcher" ->
         JsonIsContainedInMatcher_matches(self.elements, value).result

\* C16: every NoMatch verdict of matches is paired with a non-empty
\* explanation: on every input on which matches returns NoMatch, explain_match
\* returns non-empty text.
C16_NoMatchHasExplanation ==
  (op = "explain_match" /\ MatchesOf(actual) = "NoMatch") => description # ""

\* explain_match of JsonUnorderedElementsAre on an input refused although the
\* sizes fit and every matcher has a candidate element.
C16_Witness ==
  /\ ExplainCalledOnArray /\ Unordered("PerfectMatch") /\ SizesFit
  /\ UnmatchableExpected = {} /\ n_actual >= 2
  /\ MatchesOf(actual) = "NoMatch"

\* C18: for a JSON value that is not an array, matches returns NoMatch in
\* every mode without invoking any element matcher, and explain_match returns
\* 'which is not a JSON array'.
C18_NotAnArray ==
  (op # "none" /\ actual.tag # "Array") =>
    /\ invoked = <<>>
    /\ op = "matches" => result = "NoMatch"
    /\ op = "explain_match" => description = "which is not a JSON array"

\* matches called with a JSON object on a Subset matcher that has matchers.
C18_Witness ==
  /\ op = "matches" /\ actual = JsonObject
  /\ Unordered("Subset") /\ m_expected >= 1

RECURSIVE Selection(_, _, _)
\* The elements of arr at the positions in S, from position k on, in order.
Selection(arr, S, k) ==
  IF k > Len(arr) THEN <<>>
  ELSE (IF k \in S THEN <<arr[k]>> ELSE <<>>) \o Selection(arr, S, k + 1)

\* C19: contains_each succeeds on an array exactly when some selection of
\* the array's elements, chosen by position, is matched by
\* unordered_elements_are (PerfectMatch) with the same matcher list.
C19_ContainsEachIsPerfectMatchOfSelection ==
  (MatchesCalledOnArray /\ self.struct = "JsonContainsEachMatcher") =>
    (result = "Match" <=>
       \E S \in SUBSET (1..n_actual) :
         JsonUnorderedElementsAre_matches(
           self.elements, "PerfectMatch",
           JsonArray(Selection(actual.items, S, 1))).result = "Match")

\* contains_each matched two matchers in three elements, and the first two
\* elements alone are not matched by unordered_elements_are.
C19_Witness ==
  /\ MatchesCalledOnArray /\ self.struct = "JsonContainsEachMatcher"
  /\ n_actual = 3 /\ m_expected = 2 /\ result = "Match"
  /\ JsonUnorderedElementsAre_matches(
       self.elements, "PerfectMatch",
       JsonArray(SubSeq(actual.items, 1, 2))).result = "NoMatch"

RECURSIVE Escaped(_, _)
\* Character i of the path string follows a backslash that is not itself
\* escaped.
Escaped(path, i) == i > 1 /\ path[i - 1] = "\\" /\ ~Escaped(path, i - 1)

\* The positions of the dots that separate segments.
Separators(path) == {i \in DOMAIN path : path[i] = "." /\ ~Escaped(path, i)}

TrailingEscape(path) ==
  path # <<>> /\ path[Len(path)] = "\\" /\ ~Escaped(path, Len(path))

\* Nothing stands before, after or between two separators, or the string is
\* empty.
EmptySegment(path) ==
  \/ path = <<>>
  \/ 1 \in Separators(path)
  \/ Len(path) \in Separators(path)
  \/ \E i \in Separators(path) : i + 1 \in Separators(path)

InvalidPath(path) == EmptySegment(path) \/ TrailingEscape(path)

RECURSIVE Resolves(_, _)
\* Following the segments from the value, field by field and index by index,
\* leads to a value.
Resolves(value, segments) ==
  IF segments = <<>> THEN TRUE
  ELSE LET seg == Head(segments)
       IN  IF seg.kind = "Field"
           THEN /\ value.tag = "Object"
                /\ seg.name \in DOMAIN value.map
                /\ Resolves(value.map[seg.name], Tail(segments))
           ELSE /\ value.tag = "Array"
                /\ seg.idx < Len(value.items)
                /\ Resolves(value.items[seg.idx + 1], Tail(segments))

HasPathsCalled == op = "matches" /\ self.struct = "has_paths"

\* C20: has_paths matches a value if and only if every given path string
\* parsed without error, the value is a JSON object, and every parsed path is
\* among the paths of the value; if any one path string is invalid (empty
\* segment or trailing escape) the matcher matches no value at all.
C20_HasPathsIffValidObjectAndPresent ==
  HasPathsCalled =>
    /\ result = "Match" <=>
         /\ \A k \in DOMAIN self.paths : ~InvalidPath(self.paths[k])
         /\ actual.tag = "Object"
         /\ \A k \in DOMAIN self.paths :
              Resolves(actual, parse_path(self.paths[k]).segments)
    /\ (\E k \in DOMAIN self.paths : InvalidPath(self.paths[k])) => result = "NoMatch"

\* has_paths called on an object with a path the object has and, after it, a
\* path string that is invalid.
C20_Witness ==
  /\ HasPathsCalled /\ actual.tag = "Object" /\ Len(self.paths) = 2
  /\ ~InvalidPath(self.paths[1])
  /\ Len(parse_path(self.paths[1]).segments) = 2
  /\ Resolves(actual, parse_path(self.paths[1]).segments)
  /\ InvalidPath(self.paths[2])

SupersetCall == Unordered("Superset") \/ self.struct = "JsonContainsEachMatcher"
SubsetCall == Unordered("Subset") \/ self.struct = "JsonIsContainedInMatcher"

\* C25: when the side to saturate is empty the verdict is Match without any
\* invocation: Superset with no matcher matches every array, Subset with an
\* empty array matches every matcher list; Superset on an empty array with
\* matchers, and Subset on a non-empty array with no matcher, are NoMatch.
C25_EmptySideToSaturate ==
  MatchesCalledOnArray =>
    /\ (SupersetCall /\ m_expected = 0) => (result = "Match" /\ invoked = <<>>)
    /\ (SubsetCall /\ n_actual = 0) => (result = "Match" /\ invoked = <<>>)
    /\ (SupersetCall /\ n_actual = 0 /\ m_expected > 0) => result = "NoMatch"
    /\ (SubsetCall /\ m_expected = 0 /\ n_actual > 0) => result = "NoMatch"

\* matches called under Superset with no matcher on an array with elements.
C25_Witness ==
  /\ MatchesCalledOnArray /\ Unordered("Superset")
  /\ m_expected = 0 /\ n_actual >= 2

C29_ModesAgreeOnEqualSizes ==
  (MatchesCalledOnArray /\ self.struct = "JsonUnorderedElementsAre"
     /\ n_actual = m_expected) =>
    \A r \in Requirements :
      JsonUnorderedElementsAre_matches(self.elements, r, actual).result = result

\* A Subset call on as many elements as matchers, refused although every
\* element has a candidate.
C29_Witness ==
  /\ MatchesCalledOnArray /\ Unordered("Subset")
  /\ n_actual = m_expected /\ n_actual >= 2
  /\ UnmatchableActual = {} /\ result = "NoMatch"

\* The texts by which explain_match names a matcher without element or an
\* element without candidate matcher.
UnmatchableReports ==
  {"where no element matches expected #" \o ToString(i) \o ": "
     \o Describe(At(self.elements, i)) : i \in 0..(m_expected - 1)}
  \cup {"where element #" \o ToString(j) \o " = " \o Debug(At(actual.items, j))
          \o " had no candidate matcher: no candidate matcher accepted it"
          : j \in 0..(n_actual - 1)}

\* C30: whenever explain_match reports a matcher without matching element or
\* an element without candidate matcher, matches on the same input returns
\* NoMatch; whenever matches returns Match, explain_match returns 'whose
\* elements all match'.
C30_ExplanationSound ==
  (ExplainCalledOnArray /\ self.struct = "JsonUnorderedElementsAre") =>
    /\ description \in UnmatchableReports => MatchesOf(actual) = "NoMatch"
    /\ MatchesOf(actual) = "Match" => description = "whose elements all match"

\* explain_match under Subset naming an element without candidate while a
\* matcher of the list accepts nothing.
C30_Witness ==
  /\ ExplainCalledOnArray /\ Unordered("Subset")
  /\ description \in UnmatchableReports
  /\ UnmatchableExpected # {} /\ m_expected >= n_actual

\* C27: format_path and path parsing round-trip: for every list of path
\* segments (field names, possibly containing '.' or '\', and array indices),
\* parsing the string produced by format_path succeeds and yields exactly the
\* same list of segments.
C27_FormatParseRoundTrip ==
  (op = "parse_path" /\ self.path # <<>>
     /\ \A k \in DOMAIN self.path :
          self.path[k].kind = "Field" => self.path[k].name # <<>>) =>
    (result.ok /\ result.segments = self.path)

RECURSIVE Denotes(_, _)
\* What a matcher says of a value: a matcher on numbers accepts the numbers of
\* its set; an unordered matcher accepts the arrays whose sizes fit its mode
\* and whose side to saturate can be paired one to one with accepted partners.
Denotes(matcher, value) ==
  IF matcher.struct = "leaf" THEN value.tag = "Number" /\ value.n \in matcher.accepts
  ELSE /\ value.tag = "Array"
       /\ ~size_refused(matcher, value.items)
       /\ LET es == matcher.elements
              arr == value.items
          IN  IF is_subset(matcher)
              THEN \E f \in [DOMAIN arr -> DOMAIN es] :
                     IsInjective(f) /\ \A k \in DOMAIN arr : Denotes(es[f[k]], arr[k])
              ELSE \E f \in [DOMAIN es -> DOMAIN arr] :
                     IsInjective(f) /\ \A k \in DOMAIN es : Denotes(es[k], arr[f[k]])

\* The activations of the search function that hold a pair: they marked
\* their candidate j and wait for the call at i + 1.
PairedFrames(a) == {k \in DOMAIN a.frames : a.frames[k].pc = "called"}

\* An activation of matches whose search has not come to an end.
Searching(t, d) == d < Len(t.acts) \/ t.bret # "true"

FlagsSet(used) == {j \in 0..(Len(used) - 1) : At(used, j)}

\* C21: at every point of the assignment search the partial assignment is
\* injective on both sides, every pair in it is one the matcher accepts, and a
\* used flag is set exactly for the indices currently paired.
C21_PartialAssignmentInjective ==
  \A c \in DOMAIN search : \A d \in DOMAIN search[c].acts :
    LET a == search[c].acts[d]
    IN  Searching(search[c], d) =>
          /\ \A k, l \in PairedFrames(a) :
               k # l => (a.frames[k].i # a.frames[l].i /\ a.frames[k].j # a.frames[l].j)
          /\ \A k \in PairedFrames(a) :
               Denotes(ElementMatcher(a, a.frames[k].i, a.frames[k].j),
                       ElementValue(a, a.frames[k].i, a.frames[k].j))
          /\ FlagsSet(a.used) = {a.frames[k].j : k \in PairedFrames(a)}

\* Two pairs are held and the third vertex is being placed.
C21_Witness ==
  \E c \in DOMAIN search :
    /\ InFrame(c, "loop")
    /\ Cardinality(PairedFrames(TopAct(search[c]))) = 2
    /\ search[c].last.ok = "false"

\* C28: when an activation of the search function entered at depth i
\* returns false, the used flags are what they were when it was entered, and
\* at every entry at depth i exactly i flags are set.
C28_FailedBranchRestoresFlags ==
  \A c \in DOMAIN search :
    /\ search[c].bret = "false" => search[c].last.used = search[c].last.entry
    /\ InFrame(c, "entry") =>
         Cardinality(FlagsSet(TopAct(search[c]).used)) = TopFrame(search[c]).i

\* An activation at depth 1 has returned false after a deeper one had failed
\* and its flag had been cleared.
C28_Witness ==
  \E c \in DOMAIN search :
    /\ search[c].bret = "false"
    /\ search[c].last.depth = 1
    /\ Len(search[c].last.used) = 3
    /\ FlagsSet(search[c].last.used) # {}

Called(c) == search[c].state # "idle"
Returned(c) == search[c].state = "returned" /\ search[c].verdict \in {"Match", "NoMatch"}

\* C22: for every finite array and matcher list, in every mode, the
\* assignment search of matches terminates with a verdict, Match or NoMatch.
C22_SearchTerminates == \A c \in {1} : Called(c) ~> Returned(c)

\* A search that undid a choice has returned its verdict.
C22_Witness ==
  \E c \in DOMAIN search :
    /\ Returned(c) /\ search[c].last.ok # "none"
    /\ search[c].verdict = "NoMatch" /\ Len(self.elements) = 3

\* In an entry <<matcher index, element index>> of the invocation log: the
\* vertex being placed and the candidate partner tried for it.
VertexOf(entry) == IF Unordered("Subset") THEN entry[2] ELSE entry[1]
PartnerOf(entry) == IF Unordered("Subset") THEN entry[1] ELSE entry[2]
VertexCount == IF Unordered("Subset") THEN n_actual ELSE m_expected
PartnerCount == IF Unordered("Subset") THEN m_expected ELSE n_actual

\* The attempts at positions p < q belong to one visit of their vertex: no
\* lower vertex was tried in between.
SameVisit(p, q) ==
  /\ VertexOf(invoked[p]) = VertexOf(invoked[q])
  /\ \A r \in p..q : VertexOf(invoked[r]) >= VertexOf(invoked[p])

\* The last attempt for the vertex v before position q.
LastAttempt(v, q) ==
  CHOOSE p \in 1..(q - 1) :
    /\ VertexOf(invoked[p]) = v
    /\ \A r \in (p + 1)..(q - 1) : VertexOf(invoked[r]) # v

\* The one-to-one assignments of accepted partners to all vertices.
SaturatingAssignments ==
  {f \in [0..(VertexCount - 1) -> 0..(PartnerCount - 1)] :
     /\ \A v, w \in DOMAIN f : v # w => f[v] # f[w]
     /\ \A v \in DOMAIN f :
          IF Unordered("Subset")
          THEN Accepts(At(self.elements, f[v]), At(actual.items, v))
          ELSE Accepts(At(self.elements, v), At(actual.items, f[v]))}

LexLeq(f, g) ==
  f = g \/ \E v \in DOMAIN f : f[v] < g[v] /\ \A w \in DOMAIN f : w < v => f[w] = g[w]

\* The assignment the search ended with: the last partner tried for each
\* vertex.
FoundAssignment ==
  [v \in 0..(VertexCount - 1) |->
     PartnerOf(invoked[LastAttempt(v, Len(invoked) + 1)])]

C24_SearchStateIsCallLocal ==
  \A c \in DOMAIN search :
    /\ Returned(c) => (search[c].verdict = "Match" <=> Denotes(self, search[c].arg))
    /\ (InFrame(c, "invoked") /\ search[c].mret # "none") =>
         LET a == TopAct(search[c])
             f == TopFrame(search[c])
         IN  search[c].mret = "Match" <=>
               Denotes(ElementMatcher(a, f.i, f.j), ElementValue(a, f.i, f.j))
    /\ \A d \in 1..(Len(search[c].acts) - 1) :
         LET a == search[c].acts[d]
         IN  /\ a.frames[Len(a.frames)].pc = "invoked"
             /\ FlagsSet(a.used) = {a.frames[k].j : k \in PairedFrames(a)}

\* One caller has its verdict Match, reached after taking back a choice,
\* while the other is inside a nested call that already marked an element.
C24_Witness ==
  \E c, d \in DOMAIN search :
    /\ c # d
    /\ Returned(c) /\ search[c].verdict = "Match" /\ search[c].last.ok = "true"
    /\ Len(search[d].acts) = 2
    /\ FlagsSet(search[d].acts[1].used) # {}
    /\ FlagsSet(search[d].acts[2].used) # {}

====
